---- MODULE Spec2Model ----
(***************************************************************************)
(* Chainage and offset of survey points against a reference centerline.    *)
(*                                                                         *)
(* The model follows the pipeline of main.py / csv_to_pdf.py:              *)
(*   csv_to_list_of_dicts  ->  data_to_polyline  ->  calculate_chainage_   *)
(*   offset.  pandas, shapely and scipy are modelled by what the calls the *)
(* program makes do to the values that flow through them.                  *)
(*                                                                         *)
(* Numbers: coordinates are integers (metres).  Lengths are carried in     *)
(* micro-units (10^-6) and the two outputs, which the code rounds to three *)
(* decimals, in milli-units (10^-3): chainage 5.0 is 5000.                 *)
(* Text is a sequence of character codes, so that the ordering of text     *)
(* (code point by code point) and its parsing are computed, not assumed.   *)
(***************************************************************************)
EXTENDS Integers, Sequences, FiniteSets

VARIABLES
    csv_file,     \* the alignment CSV given to csv_to_list_of_dicts
    chainages,    \* the alignment records given to data_to_polyline
    survey_df,    \* the caller's survey frame: [cols, rows]
    sorted_index, \* index of the frame of data_to_polyline after dropna + sort
    polyline,     \* the LineString's coordinate sequence
    result,       \* the frame calculate_chainage_offset returns
    nearest,      \* nearest_index of every row of the last projection loop
    pc,           \* which call of the pipeline is next
    error         \* the exception that ended the pipeline and the call that raised it

vars == <<csv_file, chainages, survey_df, sorted_index, polyline, result,
          nearest, pc, error>>

\* ------------------------------------------------------------- bounds

MaxRecords == 3
MaxSurvey == 2

\* ------------------------------------------------------------- values

\* A cell of a frame or a value of a dict: a missing value (NaN / None),
\* a number, or text.
NaN == [k |-> "nan", n |-> 0, s |-> << >>]
Num(x) == [k |-> "num", n |-> x, s |-> << >>]
Text(t) == [k |-> "str", n |-> 0, s |-> t]

\* Character codes of the texts the model uses.
Digit(d) == 48 + d
TxtEasting == <<69, 97, 115, 116, 105, 110, 103>>
TxtNorthing == <<78, 111, 114, 116, 104, 105, 110, 103>>
TxtPoint == <<80, 111, 105, 110, 116>>
TxtAbc == <<97, 98, 99>>
Txt0 == <<Digit(0)>>
Txt3 == <<Digit(3)>>
Txt5 == <<Digit(5)>>
Txt9 == <<Digit(9)>>
Txt10 == <<Digit(1), Digit(0)>>

IsDigit(c) == c >= 48 /\ c <= 57

\* float(text): the texts of the model are optionally signed digit strings
\* or not numbers at all.
IsNumeric(t) ==
    LET body == IF Len(t) > 0 /\ t[1] = 45 THEN Tail(t) ELSE t
    IN  Len(body) > 0 /\ \A i \in 1..Len(body) : IsDigit(body[i])

RECURSIVE DigitsValue(_)
DigitsValue(t) ==
    IF Len(t) = 0 THEN 0
    ELSE 10 * DigitsValue(SubSeq(t, 1, Len(t) - 1)) + (t[Len(t)] - 48)

ParseFloat(t) ==
    IF t[1] = 45 THEN 0 - DigitsValue(Tail(t)) ELSE DigitsValue(t)

\* Python's < on two str values: code point by code point, a proper prefix first.
StrLess(a, b) ==
    \E i \in 1..(Len(b)) :
        /\ \A j \in 1..(i - 1) : j <= Len(a) /\ a[j] = b[j]
        /\ Len(a) >= i - 1
        /\ (Len(a) < i \/ a[i] < b[i])

\* ------------------------------------------------------------- inputs

SeqsUpTo(S, n) == UNION {[1..m -> S] : m \in 0..n}

\* An alignment record whose four values are numbers.
AlignmentRecord(e, n, c) ==
    [Point |-> Text(<<80>>), Easting |-> Num(e), Northing |-> Num(n),
     Chainage |-> Num(c)]

AlignmentFields == {"Point", "Easting", "Northing", "Chainage"}

\* Records as a caller may hand them over: all values numbers, or one field
\* of a record missing from the dict, holding NaN, or holding text that is
\* no number.
BaseRecords ==
    {AlignmentRecord(0, 0, 10), AlignmentRecord(10, 0, 9),
     AlignmentRecord(20, 0, 10)}

Without(r, f) == [g \in (DOMAIN r) \ {f} |-> r[g]]

AlteredRecords ==
    LET b == AlignmentRecord(10, 0, 9)
    IN  {Without(b, f) : f \in AlignmentFields}
        \cup {[b EXCEPT ![f] = v] :
                f \in {"Easting", "Northing", "Chainage"}, v \in {NaN, Text(TxtAbc)}}

RawRecords == BaseRecords \cup AlteredRecords

\* Vertices of the centerlines the projection is run against, and the
\* chainage the i-th record of such an input stores.
Vertices == {<<0, 0>>, <<10, 0>>, <<20, 0>>, <<10, 5>>}

StoredChainage(i) == 10 * (i - 1)

GridRecords(vs) ==
    [i \in 1..Len(vs) |-> AlignmentRecord(vs[i][1], vs[i][2], StoredChainage(i))]

\* The survey frame: its columns and its rows.
SurveyColumns == {"Point", "Northing", "Easting"}

SurveyRow(id, e, n) == [Point |-> id, Easting |-> e, Northing |-> n]

SurveyPoints == <<(<<-5, 0>>), <<5, 3>>, <<10, 0>>, <<8, 3>>>>

HeaderRow == SurveyRow(Text(TxtPoint), Text(TxtEasting), Text(TxtNorthing))

SurveyRows ==
    {SurveyRow(Num(i), Num(SurveyPoints[i][1]), Num(SurveyPoints[i][2])) :
        i \in 1..Len(SurveyPoints)}
    \cup {HeaderRow}

\* A row as csv_to_pdf reads it from the survey CSV: its values are text.
TextRow == SurveyRow(Text(<<80>>), Text(Txt5), Text(Txt3))

SurveyFrames ==
    {[cols |-> SurveyColumns, rows |-> r] :
        r \in SeqsUpTo(SurveyRows, MaxSurvey)
              \cup {<<TextRow>>, <<TextRow, TextRow>>, <<HeaderRow, TextRow>>}}

\* A frame without its Easting column.
NoEastingFrames ==
    {[cols |-> {"Point", "Northing"}, rows |-> r] :
        r \in {<< >>, <<[Point |-> Num(1), Northing |-> Num(3)]>>}}

\* Two survey points taken along a centerline through (10,0) and (20,0).
AlongLineFrames ==
    {[cols |-> SurveyColumns,
      rows |-> <<SurveyRow(Num(1), Num(10), Num(0)), SurveyRow(Num(2), Num(20), Num(0))>>]}

OneRowFrame ==
    [cols |-> SurveyColumns, rows |-> <<SurveyRow(Num(2), Num(5), Num(3))>>]

\* The alignment CSV: a sequence of lines, each a sequence of cell texts; an
\* empty cell is the empty text.
CsvHeader5 == <<TxtPoint, TxtEasting, TxtNorthing, <<67, 104>>, <<68>>>>

CsvLines5 ==
    {<<(<<80>>), e, Txt0, c, << >>>> : e \in {Txt0, Txt10}, c \in {Txt9, Txt10, << >>}}

CsvFiles ==
    {<< >>}
    \cup {<<CsvHeader5>> \o r : r \in SeqsUpTo(CsvLines5, MaxRecords)}
    \cup {<<SubSeq(CsvHeader5, 1, 4), <<(<<80>>), Txt0, Txt0, Txt9>>>>}
    \cup {<<CsvHeader5 \o <<(<<70>>)>>,
            <<(<<80>>), Txt0, Txt0, Txt9, << >>, TxtAbc>>,
            <<(<<80>>), Txt10, Txt0, Txt10, << >>, << >>>>>>}

\* ------------------------------------------------------------- main.py

base_columns == <<"Point", "Easting", "Northing", "Chainage", "Description">>

\* feature_columns: Feature_1 .. Feature_(ncols - 4).
feature_columns(ncols) ==
    SubSeq(<<"Feature_1", "Feature_2", "Feature_3">>, 1, ncols - 4)

\* pd.read_csv(header=None, dtype=str, skiprows=1): the first line is
\* skipped, an empty cell reads as NaN, every other cell as its text.
ReadCsv(lines) == Tail(lines)

CsvCell(t) == IF t = << >> THEN NaN ELSE Text(t)

\* df.columns = ...; df.to_dict(orient="records")
ToDictRecords(lines) ==
    LET rows == ReadCsv(lines)
        ncols == Len(rows[1])
        names == base_columns \o SubSeq(feature_columns(ncols), 1, ncols - 5)
    IN  [i \in 1..Len(rows) |->
            [c \in {names[j] : j \in 1..ncols} |->
                CsvCell(rows[i][CHOOSE j \in 1..ncols : names[j] = c])]]

\* ------------------------------------------------------------- csv_to_polyline.py

\* A schema test that leaves out the identification column.
required_columns_without_point == {"Northing", "Easting", "Chainage"}

required_columns == {"Point", "Northing", "Easting", "Chainage"}

\* pd.DataFrame(data): the columns are the keys of all the dicts, and a dict
\* without a key has NaN in that column.
Columns(data) == UNION {DOMAIN data[i] : i \in 1..Len(data)}

Cell(data, i, c) == IF c \in DOMAIN data[i] THEN data[i][c] ELSE NaN

\* df.dropna(subset=["Northing", "Easting", "Chainage"]): the rows kept.
DropNa(data) ==
    {i \in 1..Len(data) :
        \A c \in {"Northing", "Easting", "Chainage"} : Cell(data, i, c).k # "nan"}

\* The column's values compare as numbers when they are numbers and as str
\* when they are text; Python raises TypeError on a number against a str.
Comparable(data, rows) ==
    \A i, j \in rows : Cell(data, i, "Chainage").k = Cell(data, j, "Chainage").k

KeyLess(a, b) ==
    IF a.k = "num" THEN a.n < b.n ELSE StrLess(a.s, b.s)

\* df.sort_values(by="Chainage", ascending=True), whose default kind is
\* quicksort: any arrangement of the rows in which no row precedes one of a
\* smaller key.  The order of rows of equal keys is the sort's choice.
SortValues(data, rows) ==
    {ord \in [1..Cardinality(rows) -> rows] :
        /\ \A i, j \in DOMAIN ord : i # j => ord[i] # ord[j]
        /\ \A i, j \in DOMAIN ord :
              i < j => ~KeyLess(Cell(data, ord[j], "Chainage"),
                                Cell(data, ord[i], "Chainage"))}

\* list(zip(df["Easting"], df["Northing"]))
Coordinates(data, ord) ==
    [i \in DOMAIN ord |->
        <<Cell(data, ord[i], "Easting"), Cell(data, ord[i], "Northing")>>]

\* LineString(coordinates).  No coordinates give the empty LineString, one
\* coordinate is refused; a coordinate must be a number.  Text that reads as
\* a number is converted by float() in shapely 2 and refused by shapely 1.
CoordIsNumber(v) == v.k = "num"
CoordConvertible(v) == v.k = "num" \/ (v.k = "str" /\ IsNumeric(v.s))
CoordValue(v) == IF v.k = "num" THEN v.n ELSE ParseFloat(v.s)

LineStringAccepts(coords) ==
    /\ Len(coords) # 1
    /\ \A i \in DOMAIN coords : \A d \in 1..2 : CoordConvertible(coords[i][d])

LineStringMayRefuse(coords) ==
    \/ ~LineStringAccepts(coords)
    \/ \E i \in DOMAIN coords : \E d \in 1..2 : ~CoordIsNumber(coords[i][d])

LineString(coords) ==
    [i \in DOMAIN coords |-> <<CoordValue(coords[i][1]), CoordValue(coords[i][2])>>]

\* ------------------------------------------------------------- geometry

Sq(x) == x * x

\* Squared Euclidean distance of two coordinates.
Dist2(p, q) == Sq(p[1] - q[1]) + Sq(p[2] - q[2])

RECURSIVE ISqrtBetween(_, _, _)
ISqrtBetween(x, lo, hi) ==
    IF lo >= hi THEN lo
    ELSE LET mid == (lo + hi + 1) \div 2
         IN  IF mid * mid <= x THEN ISqrtBetween(x, mid, hi)
             ELSE ISqrtBetween(x, lo, mid - 1)

\* The integer part of the square root.
ISqrt(x) == ISqrtBetween(x, 0, x)

\* k more decimal digits of a square root whose root so far is f with
\* remainder r (the schoolbook method, digit by digit).
RECURSIVE SqrtDigits(_, _, _)
SqrtDigits(f, r, k) ==
    IF k = 0 THEN f
    ELSE LET r100 == r * 100
             x == CHOOSE d \in 0..9 :
                     /\ (20 * f + d) * d <= r100
                     /\ (d = 9 \/ (20 * f + d + 1) * (d + 1) > r100)
         IN  SqrtDigits(10 * f + x, r100 - (20 * f + x) * x, k - 1)

\* The square root of x in micro-units, rounded down.
SqrtMicro(x) == SqrtDigits(ISqrt(x), x - Sq(ISqrt(x)), 6)

\* round(v, 3) of a length given in micro-units, in milli-units.
Round3(micro) == (micro + 500) \div 1000

\* Point.distance(Point), in micro-units.
Distance(p, q) == SqrtMicro(Dist2(p, q))

\* KDTree.query: the indices of the vertices nearest to p; which of several
\* equally near vertices is returned is the tree's choice.
KDTreeQuery(points, p) ==
    {i \in DOMAIN points :
        \A j \in DOMAIN points : Dist2(p, points[i]) <= Dist2(p, points[j])}

\* The answers the tree may give for the rows of the loop, row by row.
RECURSIVE Queries(_, _)
Queries(points, rows) ==
    IF rows = << >> THEN {<< >>}
    ELSE {<<i>> \o rest :
            i \in KDTreeQuery(points,
                      <<CoordValue(Head(rows)["Easting"]),
                        CoordValue(Head(rows)["Northing"])>>),
            rest \in Queries(points, Tail(rows))}

\* GEOS LineSegment: (p - a) . (b - a), and the squared distance of p to the
\* segment a b as a fraction.
Dot(a, b, p) == (p[1] - a[1]) * (b[1] - a[1]) + (p[2] - a[2]) * (b[2] - a[2])

Cross(a, b, p) == (b[1] - a[1]) * (p[2] - a[2]) - (b[2] - a[2]) * (p[1] - a[1])

SegDistance2(a, b, p) ==
    IF Dist2(a, b) = 0 \/ Dot(a, b, p) <= 0 THEN [num |-> Dist2(p, a), den |-> 1]
    ELSE IF Dot(a, b, p) >= Dist2(a, b) THEN [num |-> Dist2(p, b), den |-> 1]
    ELSE [num |-> Sq(Cross(a, b, p)), den |-> Dist2(a, b)]

FracLess(f, g) == f.num * g.den < g.num * f.den

\* LengthIndexOfPoint::segmentNearestMeasure: the length along the segment
\* to the foot of p, clamped to the segment, in micro-units.  The foot is at
\* sqrt(dot^2 / |ab|^2), which is the distance from a to p when p is on the
\* segment: the one case of this program, whose p is a vertex of the line.
SegmentNearestMeasure(a, b, p, segStart) ==
    IF Dist2(a, b) = 0 THEN segStart
    ELSE IF Dot(a, b, p) <= 0 THEN segStart
    ELSE IF Dot(a, b, p) >= Dist2(a, b) THEN segStart + Distance(a, b)
    ELSE segStart + SqrtMicro(Sq(Dot(a, b, p)) \div Dist2(a, b))

\* A variant of the scan: a segment as near as the nearest so far replaces it, so the last
\* of several equally near segments gives the measure.
RECURSIVE IndexOfFromStart_last_nearest(_, _, _, _, _, _)
IndexOfFromStart_last_nearest(line, p, k, segStart, minDistance, ptMeasure) ==
    IF k >= Len(line) THEN ptMeasure
    ELSE LET a == line[k]
             b == line[k + 1]
             segDistance == SegDistance2(a, b, p)
             nearer == minDistance.den = 0 \/ ~FracLess(minDistance, segDistance)
         IN  IndexOfFromStart_last_nearest(line, p, k + 1, segStart + Distance(a, b),
                 IF nearer THEN segDistance ELSE minDistance,
                 IF nearer THEN SegmentNearestMeasure(a, b, p, segStart)
                 ELSE ptMeasure)

\* LengthIndexOfPoint::indexOfFromStart: over the segments in order, keep
\* the measure of the first segment strictly nearer than all before it.
RECURSIVE IndexOfFromStart(_, _, _, _, _, _)
IndexOfFromStart(line, p, k, segStart, minDistance, ptMeasure) ==
    IF k >= Len(line) THEN ptMeasure
    ELSE LET a == line[k]
             b == line[k + 1]
             segDistance == SegDistance2(a, b, p)
             nearer == minDistance.den = 0 \/ FracLess(segDistance, minDistance)
         IN  IndexOfFromStart(line, p, k + 1, segStart + Distance(a, b),
                 IF nearer THEN segDistance ELSE minDistance,
                 IF nearer THEN SegmentNearestMeasure(a, b, p, segStart)
                 ELSE ptMeasure)

\* LineString.project(point), in micro-units.  A fraction of denominator 0
\* stands for the unset minimum distance.
Project(line, p) ==
    IndexOfFromStart(line, p, 1, 0, [num |-> 1, den |-> 0], 0)

\* ------------------------------------------------------------- cal_ch_offset.py

survey_required_columns == {"Point", "Northing", "Easting"}

\* survey_df["Easting"].iloc[0] is the str "Easting".
IsHeaderRow(df) ==
    df.rows[1]["Easting"].k = "str" /\ df.rows[1]["Easting"].s = TxtEasting

\* A variant of the header test: the first row is dropped whatever it holds.
LoopRows_always_skip(df) == Tail(df.rows)

\* survey_df.iloc[1:].reset_index(drop=True) when the first row is a header.
LoopRows(df) == IF IsHeaderRow(df) THEN Tail(df.rows) ELSE df.rows

\* Point(row["Easting"], row["Northing"]): as for LineString, a number is
\* taken, text that reads as a number is converted or refused, other text
\* is refused.
PointAccepts(row) ==
    CoordConvertible(row["Easting"]) /\ CoordConvertible(row["Northing"])

PointMayRefuse(row) ==
    ~(CoordIsNumber(row["Easting"]) /\ CoordIsNumber(row["Northing"]))

survey_point(row) == <<CoordValue(row["Easting"]), CoordValue(row["Northing"])>>

\* chainage = round(polyline.project(nearest_point), 3), in milli-units.
Chainage(line, nearest_point) == Round3(Project(line, nearest_point))

\* offset = round(survey_point.distance(nearest_point), 3), in milli-units.
Offset(p, nearest_point) == Round3(Distance(p, nearest_point))

\* survey_df["Chainage"] = chainage_list; survey_df["Offset"] = offset_list
WithColumns(df, rows, line, nearest_index) ==
    [cols |-> df.cols \cup {"Chainage", "Offset"},
     rows |->
        [i \in DOMAIN rows |->
            [c \in df.cols \cup {"Chainage", "Offset"} |->
                IF c = "Chainage"
                THEN Num(Chainage(line, line[nearest_index[i]]))
                ELSE IF c = "Offset"
                THEN Num(Offset(survey_point(rows[i]), line[nearest_index[i]]))
                ELSE rows[i][c]]]]

\* ------------------------------------------------------------- the pipeline

NoFrame == [cols |-> {}, rows |-> << >>]

NoError == [raised_by |-> "none", type |-> "none"]

\* The state before the first call: an alignment CSV that main() reads, or
\* alignment records handed to csv_to_pdf directly.
Init ==
    /\ sorted_index = << >>
    /\ polyline = << >>
    /\ result = NoFrame
    /\ nearest = << >>
    /\ error = NoError
    /\ \/ /\ csv_file \in CsvFiles
          /\ chainages = << >>
          /\ survey_df = OneRowFrame
          /\ pc = "csv_to_list_of_dicts"
       \/ /\ csv_file = << >>
          /\ chainages \in SeqsUpTo(RawRecords, MaxRecords)
          /\ survey_df = OneRowFrame
          /\ pc = "data_to_polyline"
       \/ /\ csv_file = << >>
          /\ chainages \in {GridRecords(vs) : vs \in SeqsUpTo(Vertices, MaxRecords)}
          /\ survey_df \in SurveyFrames \cup NoEastingFrames \cup AlongLineFrames
          /\ pc = "data_to_polyline"

\* An exception leaves the pipeline: nothing catches it.
Raise(call, e) ==
    /\ error' = [raised_by |-> call, type |-> e]
    /\ pc' = "failed"

\* main.py, csv_to_list_of_dicts
csv_to_list_of_dicts ==
    /\ pc = "csv_to_list_of_dicts"
    /\ \/ /\ Len(csv_file) <= 1
          /\ Raise("csv_to_list_of_dicts", "EmptyDataError")
          /\ UNCHANGED chainages
       \/ /\ Len(csv_file) > 1
          /\ Len(ReadCsv(csv_file)[1]) < 5
          /\ Raise("csv_to_list_of_dicts", "ValueError")
          /\ UNCHANGED chainages
       \/ /\ Len(csv_file) > 1
          /\ Len(ReadCsv(csv_file)[1]) >= 5
          /\ chainages' = ToDictRecords(csv_file)
          /\ pc' = "data_to_polyline"
          /\ UNCHANGED error
    /\ UNCHANGED <<csv_file, survey_df, sorted_index, polyline, result, nearest>>

\* csv_to_polyline.py, data_to_polyline
data_to_polyline ==
    /\ pc = "data_to_polyline"
    /\ \/ /\ ~(required_columns \subseteq Columns(chainages))
          /\ Raise("data_to_polyline", "ValueError")
          /\ UNCHANGED <<sorted_index, polyline>>
       \/ /\ required_columns \subseteq Columns(chainages)
          /\ ~Comparable(chainages, DropNa(chainages))
          /\ Raise("data_to_polyline", "TypeError")
          /\ UNCHANGED <<sorted_index, polyline>>
       \/ /\ required_columns \subseteq Columns(chainages)
          /\ Comparable(chainages, DropNa(chainages))
          /\ \E ord \in SortValues(chainages, DropNa(chainages)) :
                /\ sorted_index' = ord
                /\ \/ /\ LineStringMayRefuse(Coordinates(chainages, ord))
                      /\ Raise("data_to_polyline", "LineStringError")
                      /\ UNCHANGED polyline
                   \/ /\ LineStringAccepts(Coordinates(chainages, ord))
                      /\ polyline' = LineString(Coordinates(chainages, ord))
                      /\ pc' = "calculate_chainage_offset"
                      /\ UNCHANGED error
    /\ UNCHANGED <<csv_file, chainages, survey_df, result, nearest>>

\* cal_ch_offset.py, calculate_chainage_offset
calculate_chainage_offset ==
    /\ pc = "calculate_chainage_offset"
    /\ \/ /\ ~(survey_required_columns \subseteq survey_df.cols)
          /\ Raise("calculate_chainage_offset", "ValueError")
          /\ UNCHANGED <<survey_df, result, nearest>>
       \/ /\ survey_required_columns \subseteq survey_df.cols
          /\ Len(survey_df.rows) = 0
          /\ Raise("calculate_chainage_offset", "IndexError")
          /\ UNCHANGED <<survey_df, result, nearest>>
       \/ /\ survey_required_columns \subseteq survey_df.cols
          /\ Len(survey_df.rows) > 0
          /\ polyline = << >>
          /\ Raise("calculate_chainage_offset", "KDTreeError")
          /\ UNCHANGED <<survey_df, result, nearest>>
       \/ /\ survey_required_columns \subseteq survey_df.cols
          /\ Len(survey_df.rows) > 0
          /\ polyline # << >>
          /\ \E i \in DOMAIN LoopRows(survey_df) : PointMayRefuse(LoopRows(survey_df)[i])
          /\ Raise("calculate_chainage_offset", "PointError")
          /\ UNCHANGED <<survey_df, result, nearest>>
       \/ /\ survey_required_columns \subseteq survey_df.cols
          /\ Len(survey_df.rows) > 0
          /\ polyline # << >> \/ LoopRows(survey_df) = << >>
          /\ \A i \in DOMAIN LoopRows(survey_df) : PointAccepts(LoopRows(survey_df)[i])
          /\ \E nearest_index \in Queries(polyline, LoopRows(survey_df)) :
                /\ nearest' = nearest_index
                /\ result' = WithColumns(survey_df, LoopRows(survey_df), polyline,
                                         nearest_index)
                /\ survey_df' = IF IsHeaderRow(survey_df) THEN survey_df ELSE result'
          /\ pc' = "done"
          /\ UNCHANGED error
    /\ UNCHANGED <<csv_file, chainages, sorted_index, polyline>>

Next ==
    \/ csv_to_list_of_dicts
    \/ data_to_polyline
    \/ calculate_chainage_offset

Spec == Init /\ [][Next]_vars

\* ------------------------------------------------------------- properties

\* data_to_polyline has returned a centerline / has raised.
BuildReturned ==
    \/ pc \in {"calculate_chainage_offset", "done"}
    \/ error.raised_by = "calculate_chainage_offset"

BuildRaised == error.raised_by = "data_to_polyline"

\* A required field no record of the input carries.
AbsentEverywhere(f) == \A i \in 1..Len(chainages) : f \notin DOMAIN chainages[i]

\* The records whose northing, easting and chainage hold a value, and those
\* whose three values are moreover numbers or text that reads as a number.
HasValues(i) ==
    \A f \in {"Northing", "Easting", "Chainage"} :
        f \in DOMAIN chainages[i] /\ chainages[i][f].k # "nan"

IsValid(i) ==
    /\ HasValues(i)
    /\ \A f \in {"Northing", "Easting", "Chainage"} :
          chainages[i][f].k = "num" \/ IsNumeric(chainages[i][f].s)

ValidRecords == {i \in 1..Len(chainages) : IsValid(i)}

AllFieldsSomewhere ==
    \A f \in {"Point", "Northing", "Easting", "Chainage"} : ~AbsentEverywhere(f)

\* C7: data_to_polyline drops every record whose northing, easting or
\* chainage is missing or unparseable, keeps every other record, raises no
\* error while at least two valid records remain, and the centerline has one
\* vertex per kept record.
C7_DropsInvalidKeepsValid ==
    (AllFieldsSomewhere /\ (BuildReturned \/ BuildRaised)
        /\ Cardinality(ValidRecords) >= 2)
    => /\ BuildReturned
       /\ {sorted_index[k] : k \in DOMAIN sorted_index} = ValidRecords
       /\ Len(polyline) = Cardinality(ValidRecords)

\* The chainage of a record as a number.
ChainageNumber(i) == CoordValue(chainages[i]["Chainage"])

\* C8: the vertices of the centerline follow the records in ascending order
\* of their chainage compared as numbers, also for the text records that
\* csv_to_list_of_dicts supplies.  (Records of equal chainage are allowed
\* here in either order: the claim moreover wants them in input order, which
\* the quicksort of sort_values does not promise.)
C8_AscendingByNumericChainage ==
    (BuildReturned /\ \A k \in DOMAIN sorted_index : IsValid(sorted_index[k]))
    => \A j, k \in DOMAIN sorted_index :
          j < k => ChainageNumber(sorted_index[j]) <= ChainageNumber(sorted_index[k])

\* C9: with fewer than two records left after the records with missing
\* values are dropped, data_to_polyline raises and returns no centerline.
C9_TooFewRecordsRaises ==
    (AllFieldsSomewhere /\ (BuildReturned \/ BuildRaised)
        /\ Cardinality({i \in 1..Len(chainages) : HasValues(i)}) < 2)
    => BuildRaised

\* C10: when Point, Northing, Easting or Chainage is absent from every record,
\* data_to_polyline raises its ValueError before it filters, sorts or builds
\* anything; when each of the four is on some record, that check does not fail.
C10_SchemaCheck ==
    (BuildReturned \/ BuildRaised)
    => /\ (~AllFieldsSomewhere)
            => /\ error = [raised_by |-> "data_to_polyline", type |-> "ValueError"]
               /\ sorted_index = << >>
               /\ polyline = << >>
               /\ pc = "failed"
       /\ AllFieldsSomewhere
            => error # [raised_by |-> "data_to_polyline", type |-> "ValueError"]

\* C10's case: records were given, one of the four fields is on none of
\* them, and the call has raised.
C10_Witness ==
    /\ Len(chainages) >= 2
    /\ AbsentEverywhere("Chainage")
    /\ ~AbsentEverywhere("Point")
    /\ error.raised_by = "data_to_polyline"

\* ------------------------------------------------------------- projection properties

RECURSIVE Gcd(_, _)
Gcd(a, b) == IF b = 0 THEN a ELSE Gcd(b, a % b)

RECURSIVE FloorRootBetween(_, _, _, _)
FloorRootBetween(n, d, lo, hi) ==
    IF lo >= hi THEN lo
    ELSE LET mid == (lo + hi + 1) \div 2
         IN  IF mid * mid * d <= n THEN FloorRootBetween(n, d, mid, hi)
             ELSE FloorRootBetween(n, d, lo, mid - 1)

\* 1000 * sqrt(num / den) rounded down, and rounded to the nearest integer.
FloorSqrtMilli(num, den) ==
    IF num = 0 THEN 0
    ELSE LET g == Gcd(num, den)
             n == (num \div g) * 1000000
             d == den \div g
         IN  FloorRootBetween(n, d, 0, 1000 * (ISqrt(num \div den) + 1))

RoundSqrtMilli(num, den) ==
    IF num = 0 THEN 0
    ELSE LET g == Gcd(num, den)
             n == (num \div g) * 1000000
             d == den \div g
             f == FloorSqrtMilli(num, den)
         IN  IF 4 * (n - f * f * d) >= 4 * f * d + d THEN f + 1 ELSE f

\* Arc length of the line from its first vertex to its k-th, in micro-units.
RECURSIVE ArcLength(_, _)
ArcLength(line, k) ==
    IF k <= 1 THEN 0
    ELSE ArcLength(line, k - 1) + Distance(line[k - 1], line[k])

\* The rows of the returned frame, with what the call reported for them.
ResultRows == DOMAIN result.rows
ReportedChainage(i) == result.rows[i]["Chainage"].n
ReportedOffset(i) == result.rows[i]["Offset"].n
SurveyPointOf(i) ==
    <<CoordValue(result.rows[i]["Easting"]), CoordValue(result.rows[i]["Northing"])>>

\* The segments incident to vertex v (segment k joins vertices k and k + 1).
IncidentSegments(line, v) == {k \in {v - 1, v} : k >= 1 /\ k < Len(line)}

\* The refinement's candidates for survey point p around nearest vertex v:
\* v itself and the clamped feet of p on the incident segments, each with its
\* squared distance to p (a fraction) and its arc length in milli-units
\* (rounded down).
Candidates(line, v, p) ==
    {[d2 |-> [num |-> Dist2(p, line[v]), den |-> 1],
      arc |-> ArcLength(line, v) \div 1000]}
    \cup
    {[d2 |-> SegDistance2(line[k], line[k + 1], p),
      arc |-> (ArcLength(line, k) \div 1000)
              + (IF Dist2(line[k], line[k + 1]) = 0 \/ Dot(line[k], line[k + 1], p) <= 0
                 THEN 0
                 ELSE IF Dot(line[k], line[k + 1], p) >= Dist2(line[k], line[k + 1])
                 THEN Distance(line[k], line[k + 1]) \div 1000
                 ELSE FloorSqrtMilli(Sq(Dot(line[k], line[k + 1], p)),
                                     Dist2(line[k], line[k + 1])))] :
        k \in IncidentSegments(line, v)}

Nearest(cands) == {c \in cands : \A e \in cands : ~FracLess(e.d2, c.d2)}

Abs(x) == IF x < 0 THEN 0 - x ELSE x

\* C1: for every survey point the reported offset is the smallest distance
\* among the nearest vertex and the clamped feet on the two segments incident
\* to it, and the reported chainage is the arc length to that selected point
\* (compared within two milli-units, the arc length of a foot being summed
\* from values rounded down); so (5,3) against [(0,0),(10,0)] gets 5.0 and 3.0.
C1_SegmentRefinedNearestPoint ==
    pc = "done"
    => \A i \in ResultRows :
          LET best == Nearest(Candidates(polyline, nearest[i], SurveyPointOf(i)))
          IN  \E c \in best :
                 /\ ReportedOffset(i) = RoundSqrtMilli(c.d2.num, c.d2.den)
                 /\ Abs(ReportedChainage(i) - c.arc) <= 2


\* The first row of the caller's frame is a header row.
FirstIsHeader == survey_df.rows[1]["Easting"] = Text(TxtEasting)

C3_EmptySurveyReturnsEmpty ==
    (/\ survey_required_columns \subseteq survey_df.cols
     /\ Len(survey_df.rows) = 0
     /\ (pc = "done" \/ error.raised_by = "calculate_chainage_offset"))
    => (pc = "done" /\ result.rows = << >>)

\* p lies on the line: on a vertex or on a segment between two vertices.
OnPolyline(line, p) ==
    \E k \in 1..(Len(line) - 1) : SegDistance2(line[k], line[k + 1], p).num = 0

\* C4: the reported offset is never negative, and it is 0 exactly when the
\* survey point lies on the polyline.
C4_OffsetZeroIffOnPolyline ==
    pc = "done"
    => \A i \in ResultRows :
          /\ ReportedOffset(i) >= 0
          /\ ReportedOffset(i) = 0 <=> OnPolyline(polyline, SurveyPointOf(i))

\* The chainage the record behind the j-th vertex stores, in milli-units.
StoredChainageOfVertex(j) == 1000 * ChainageNumber(sorted_index[j])

\* C5 as claimed: a survey point on a vertex gets offset 0 and the chainage
\* stored on the record of that vertex (of one of them, when several records
\* share the coordinates).
C5_VertexGetsStoredChainage ==
    pc = "done"
    => \A i \in ResultRows :
          (\E j \in DOMAIN polyline : SurveyPointOf(i) = polyline[j])
          => /\ ReportedOffset(i) = 0
             /\ \E j \in DOMAIN polyline :
                   /\ SurveyPointOf(i) = polyline[j]
                   /\ ReportedChainage(i) = StoredChainageOfVertex(j)

\* Arc length to the first place where the line passes through p.
FirstReach(line, p) ==
    LET k == CHOOSE k \in 1..(Len(line) - 1) :
                /\ SegDistance2(line[k], line[k + 1], p).num = 0
                /\ \A m \in 1..(k - 1) : SegDistance2(line[m], line[m + 1], p).num # 0
    IN  ArcLength(line, k) + Distance(line[k], p)

\* C5 as amended: a survey point on a vertex gets offset 0 and, as chainage,
\* the arc length (to 3 decimals) from the first vertex to the first place
\* where the polyline passes through that point; the stored chainage plays no
\* part.
C5_VertexGetsArcLength ==
    pc = "done"
    => \A i \in ResultRows :
          (\E j \in DOMAIN polyline : SurveyPointOf(i) = polyline[j])
          => /\ ReportedOffset(i) = 0
             /\ ReportedChainage(i) = Round3(FirstReach(polyline, SurveyPointOf(i)))

\* C5's case: a survey point on a vertex of a three-vertex centerline whose
\* record stores another chainage than the one reported.
C5_Witness ==
    /\ pc = "done"
    /\ Len(polyline) = 3
    /\ \E i \in ResultRows : \E j \in DOMAIN polyline :
          /\ SurveyPointOf(i) = polyline[j]
          /\ ReportedChainage(i) > 0
          /\ ReportedChainage(i) # StoredChainageOfVertex(j)

\* The survey point of row i has the first (last) vertex as its one nearest
\* vertex, and its foot on the first (last) segment falls before (after) the
\* segment.
BeyondFirst(i) ==
    /\ KDTreeQuery(polyline, SurveyPointOf(i)) = {1}
    /\ Dot(polyline[1], polyline[2], SurveyPointOf(i)) < 0

BeyondLast(i) ==
    LET n == Len(polyline)
    IN  /\ KDTreeQuery(polyline, SurveyPointOf(i)) = {n}
        /\ Dot(polyline[n - 1], polyline[n], SurveyPointOf(i))
              > Dist2(polyline[n - 1], polyline[n])

\* C6: a survey point beyond the first vertex gets chainage 0, one beyond the
\* last vertex the total length of the centerline, and as offset the distance
\* to that end vertex.
C6_ClampsToEnds ==
    pc = "done"
    => \A i \in ResultRows :
          /\ BeyondFirst(i)
             => /\ ReportedChainage(i) = 0
                /\ ReportedOffset(i) = Round3(Distance(SurveyPointOf(i), polyline[1]))
          /\ BeyondLast(i)
             => /\ ReportedChainage(i) = Round3(ArcLength(polyline, Len(polyline)))
                /\ ReportedOffset(i)
                      = Round3(Distance(SurveyPointOf(i), polyline[Len(polyline)]))

\* ------------------------------------------------------------- degenerate centerline

\* The (easting, northing) of a valid record.
RecordCoordinates(i) ==
    <<CoordValue(chainages[i]["Easting"]), CoordValue(chainages[i]["Northing"])>>

\* Every record is valid, there are at least two, and all lie on one point.
SinglePointAlignment ==
    /\ Len(chainages) >= 2
    /\ ValidRecords = 1..Len(chainages)
    /\ AllFieldsSomewhere
    /\ \A i, j \in ValidRecords : RecordCoordinates(i) = RecordCoordinates(j)

\* C11: when all valid alignment records share one (easting, northing), the
\* pipeline of building the centerline and projecting onto it ends with an
\* error of one of the two calls and returns no chainage and offset values.
C11_SinglePointCenterlineRaises ==
    (SinglePointAlignment /\ pc \in {"done", "failed"})
    => /\ pc = "failed"
       /\ error.raised_by \in {"data_to_polyline", "calculate_chainage_offset"}
       /\ result = NoFrame

\* ------------------------------------------------------------- frame effect

\* C12: no call of calculate_chainage_offset changes the survey frame the
\* caller gave it: the frame has the same columns and the same rows with the
\* same values after the call as before, whether the call returns or raises.
C12_InputNeverMutated ==
    [][pc = "calculate_chainage_offset" => survey_df' = survey_df]_vars

\* ------------------------------------------------------------- monotonicity

\* A centerline of at least two vertices, no two of them on the same point.
DistinctVertices(line) ==
    /\ Len(line) >= 2
    /\ \A j, k \in DOMAIN line : j # k => line[j] # line[k]

\* The arc lengths at which the line passes through p, in micro-units.
ArcPositions(line, p) ==
    {ArcLength(line, k) + Distance(line[k], p) :
        k \in {m \in 1..(Len(line) - 1) : SegDistance2(line[m], line[m + 1], p).num = 0}}

\* Row i is a query point on the polyline, at one arc-length position.
TakenOnPolyline(i) == Cardinality(ArcPositions(polyline, SurveyPointOf(i))) = 1

ArcPosition(i) == CHOOSE a \in ArcPositions(polyline, SurveyPointOf(i)) : TRUE

\* C13: on a centerline of distinct vertices, of two query points that lie on
\* the polyline the one at the greater arc-length position is never reported
\* a smaller chainage than the other.
C13_ChainageNonDecreasingAlongLine ==
    (pc = "done" /\ DistinctVertices(polyline))
    => \A i, j \in ResultRows :
          (/\ TakenOnPolyline(i)
           /\ TakenOnPolyline(j)
           /\ ArcPosition(i) < ArcPosition(j))
          => ReportedChainage(i) <= ReportedChainage(j)

====
